---- MODULE Spec2Model ----
(***************************************************************************)
(* SmartScraper (src/scraper.py): fetch -> block detection -> extraction.  *)
(* Every scraper object is built for one URL and runs scrape() once, as a  *)
(* task of one asyncio event loop.  A task runs without interruption       *)
(* between two suspension points (the HTTP GET and the two                 *)
(* asyncio.to_thread calls), so every action below is the code that runs   *)
(* from one suspension point to the next.                                  *)
(*                                                                         *)
(* The environment is nondeterministic: the transport may raise or answer  *)
(* any body and status, each completion call may raise or answer any       *)
(* reply, opening or writing last_response.html may fail, BeautifulSoup    *)
(* may raise.  Exceptions are those `except Exception` catches; task       *)
(* cancellation is not modelled.  Logging, the request headers and the     *)
(* text of the prompts (with their [:1000] and [:4000] cuts) do not        *)
(* influence control flow and are left out.                                *)
(***************************************************************************)
EXTENDS Integers, Sequences, FiniteSets, TLC

\* ------------------------------------------------------------------------
\* Optional[T]: None is the empty sequence, a present value x is <<x>>.
None == <<>>

Some(x) == <<x>>

\* ------------------------------------------------------------------------
\* Text.  A str is a sequence of one-character strings.
UPPER == <<"A","B","C","D","E","F","G","H","I","J","K","L","M",
           "N","O","P","Q","R","S","T","U","V","W","X","Y","Z">>

LOWER == <<"a","b","c","d","e","f","g","h","i","j","k","l","m",
           "n","o","p","q","r","s","t","u","v","w","x","y","z">>

\* One character of str.lower(): an upper-case letter maps to its
\* lower-case letter, every other character to itself.
LowerChar(c) ==
    IF \E k \in 1..Len(UPPER) : UPPER[k] = c
    THEN LOWER[CHOOSE k \in 1..Len(UPPER) : UPPER[k] = c]
    ELSE c

\* Faulty variant of str_lower: the text is compared as it came (no .lower()).
str_lower_forgotten(s) == s

\* response_text.lower()
str_lower(s) == [k \in 1..Len(s) |-> LowerChar(s[k])]

\* needle in hay (Python's substring test on str)
str_contains(needle, hay) ==
    \E k \in 0..(Len(hay) - Len(needle)) :
        SubSeq(hay, k + 1, k + Len(needle)) = needle

CAPTCHA == <<"c","a","p","t","c","h","a">>

ACCESS_DENIED == <<"a","c","c","e","s","s"," ","d","e","n","i","e","d">>

RATE_LIMIT == <<"r","a","t","e"," ","l","i","m","i","t">>

\* The phrases of blocking_indicators, in the order of the list.
BlockingPhrases == {CAPTCHA, ACCESS_DENIED, RATE_LIMIT}

\* status_code in [403, 429, 503]
BlockingStatusCodes == {403, 429, 503}

\* ------------------------------------------------------------------------
\* JSON values as json.loads builds them.  Prices are counted in cents.
JNull == [t |-> "null"]

JBool(b) == [t |-> "bool", b |-> b]

JNum(n) == [t |-> "num", n |-> n]

JStr(s) == [t |-> "str", s |-> s]

JList == [t |-> "list"]

JObj(f) == [t |-> "dict", f |-> f]

\* Python truth value of a parsed JSON value (the test of `if x:`).
truthy(v) ==
    CASE v.t = "null" -> FALSE
      [] v.t = "bool" -> v.b
      [] v.t = "num"  -> v.n # 0
      [] v.t = "str"  -> v.s # ""
      [] v.t = "list" -> FALSE
      [] v.t = "dict" -> TRUE

\* dict.get(key): the value, or None (JSON null) when the key is missing.
dict_get(d, key) == IF key \in DOMAIN d THEN d[key] ELSE JNull

\* Faulty variant of dict_update: keys already present keep their value
\* (setdefault instead of update).
dict_update_keeps_existing(d, new) ==
    [k \in (DOMAIN d) \cup (DOMAIN new) |-> IF k \in DOMAIN d THEN d[k] ELSE new[k]]

\* dict.update(new): the keys of new overwrite those of d.
dict_update(d, new) ==
    [k \in (DOMAIN d) \cup (DOMAIN new) |-> IF k \in DOMAIN new THEN new[k] ELSE d[k]]

\* ------------------------------------------------------------------------
\* _safe_request.  The transport either raises or yields a response; any
\* exception is caught and mapped to (None, 500).
TransportError == [kind |-> "exception"]

HttpResponse(body, status) == [kind |-> "response", body |-> body, status |-> status]

\* Faulty variant of safe_request: a failed request yields an empty body.
safe_request_empty_body(http) ==
    IF http.kind = "exception" THEN <<Some(<<>>), 500>>
    ELSE <<Some(http.body), http.status>>

\* The pair (content, status) that _safe_request returns.
safe_request(http) ==
    IF http.kind = "exception" THEN <<None, 500>>
    ELSE <<Some(http.body), http.status>>

\* ------------------------------------------------------------------------
\* _check_for_blocking, first stage: any(blocking_indicators).
any_blocking_indicator(response_text, status_code) ==
    \/ status_code \in BlockingStatusCodes
    \/ \E phrase \in BlockingPhrases : str_contains(phrase, str_lower(response_text))

\* A reply of the completion service: the call raises, or it returns a
\* message whose content json.loads rejects, or one it parses to a value.
ServiceError == [kind |-> "error"]

NotJson == [kind |-> "text"]

Json(v) == [kind |-> "json", value |-> v]

\* _check_for_blocking, second stage: True only when the reply parses,
\* has a .get (is a dict) and result.get('is_blocked') is truthy; every
\* exception of the try block is logged and the stage falls through to
\* return False.
llm_detects_blocking(reply) ==
    /\ reply.kind = "json"
    /\ reply.value.t = "dict"
    /\ truthy(dict_get(reply.value.f, "is_blocked"))

\* ------------------------------------------------------------------------
\* scrape: `if await self._check_for_blocking(...)` is false.
\* Faulty variant of passes_block_check: the verdict is ignored.
passes_block_check_always(is_blocked) == TRUE

passes_block_check(is_blocked) == ~is_blocked

\* Faulty variant of file_write: the file is opened in append mode.
file_write_append(old, text, how) ==
    CASE how = "ok"          -> Some((IF old = None THEN <<>> ELSE old[1]) \o text)
      [] how = "open_fails"  -> old
      [] how = "write_fails" -> Some(<<>>)

\* open('last_response.html', 'w') and f.write(html_content): the new
\* content of the file.  open truncates; a failing open leaves the file as
\* it was, a failing write leaves it truncated.
file_write(old, text, how) ==
    CASE how = "ok"          -> Some(text)
      [] how = "open_fails"  -> old
      [] how = "write_fails" -> Some(<<>>)

WriteOutcomes == {"ok", "open_fails", "write_fails"}

\* ------------------------------------------------------------------------
\* _extract_data_with_llm.
\* datetime.now().isoformat(): the instant as text.
IsoFormat(instant) == ToString(instant)

\* Faulty variant of metadata: the record is stamped with a fixed URL.
metadata_fixed_url(instant, url) ==
    [timestamp |-> JStr(IsoFormat(instant)), url |-> JStr("https://shop.example/")]

\* The metadata added to the extracted data.
metadata(instant, url) ==
    [timestamp |-> JStr(IsoFormat(instant)), url |-> JStr(url)]

\* Faulty variant of extract_data: a reply that is not a dict yields a record of
\* the metadata alone.
extract_data_never_absent(reply, instant, url) ==
    IF reply.kind = "json" /\ reply.value.t = "dict"
    THEN Some(dict_update(reply.value.f, metadata(instant, url)))
    ELSE Some(metadata(instant, url))

\* What the method returns once the service has replied: the parsed dict
\* updated with the metadata; None when the call raised, the content is no
\* JSON, or the parsed value has no .update (except Exception: return None).
extract_data(reply, instant, url) ==
    IF reply.kind = "json" /\ reply.value.t = "dict"
    THEN Some(dict_update(reply.value.f, metadata(instant, url)))
    ELSE None

\* ------------------------------------------------------------------------
\* The environment: the scrapers built, and what the network, the file
\* system, the clock and the completion service can answer.

\* The URLs given at construction, one scraper object per URL.
Urls == {"https://a.example/p1", "https://b.example/p2"}

\* The clock stops advancing at MaxClock.
MaxClock == 1

PAGE_CAPTCHA == <<"C","A","P","T","C","H","A">>

PAGE_DENIED == <<"A","c","c","e","s","s"," ","D","e","n","i","e","d","!">>

PAGE_LIMIT == <<"x"," ","r","a","t","e"," ","L","I","M","I","T">>

PAGE_NEAR_MISS == <<"R","a","t","e","-","l","i","m","i","t">>

PAGE_EMPTY == <<>>

Bodies == {PAGE_CAPTCHA, PAGE_DENIED, PAGE_LIMIT, PAGE_NEAR_MISS, PAGE_EMPTY}

StatusCodes == {200, 403, 429, 503}

HttpOutcomes ==
    {TransportError} \cup {HttpResponse(b, st) : b \in Bodies, st \in StatusCodes}

\* Replies to the blocking prompt.
ClassifierReplies ==
    { ServiceError,
      NotJson,
      Json(JList),
      Json(JObj([reason |-> JStr("no verdict")])),
      Json(JObj([is_blocked |-> JBool(TRUE), reason |-> JStr("robot check")])),
      Json(JObj([is_blocked |-> JBool(FALSE), reason |-> JStr("")])),
      Json(JObj([is_blocked |-> JStr("false"), reason |-> JStr("")])),
      Json(JObj([is_blocked |-> JNum(0), reason |-> JStr("")])) }

\* Replies to the extraction prompt.
ExtractorReplies ==
    { ServiceError,
      NotJson,
      Json(JList),
      Json(JObj([name |-> JStr("gel"), price |-> JNum(999),
                 currency |-> JStr("EUR"), promotion |-> JNull])),
      Json(JObj([name |-> JStr("gel"), price |-> JStr("free")])),
      Json(JObj([name |-> JStr("gel"), price |-> JNull,
                 url |-> JStr("https://other.example/"),
                 timestamp |-> JStr("stale")])) }

\* The content of last_response.html before any scraper ran.
OldArtifact == Some(<<"o","l","d">>)

\* ------------------------------------------------------------------------
VARIABLES
    pc,             \* per scraper: where its scrape() task is suspended
    html_content,   \* per scraper: local html_content of scrape()
    status_code,    \* per scraper: local status_code of scrape()
    verdict,        \* per scraper: what _check_for_blocking decided, and how
    outcome,        \* per scraper: "pending", "returned" or "raised"
    result,         \* per scraper: the value scrape() returned
    started,        \* per scraper: the instant scrape() was called
    calls,          \* per scraper: how often each collaborator was invoked
    heard,          \* per scraper: what the environment answered
    last_response,  \* the content of the file last_response.html
    last_writer,    \* the scraper that last opened the file for writing
    now             \* the clock

vars == <<pc, html_content, status_code, verdict, outcome, result, started,
          calls, heard, last_response, last_writer, now>>

NoCalls == [request |-> 0, detector |-> 0, classifier |-> 0, reducer |-> 0,
            extractor |-> 0]

NothingHeard == [http |-> None, classifier |-> None, write |-> "none",
                 reducer |-> "none", extractor |-> None]

Init ==
    /\ pc = [u \in Urls |-> "idle"]
    /\ html_content = [u \in Urls |-> None]
    /\ status_code = [u \in Urls |-> 0]
    /\ verdict = [u \in Urls |-> "none"]
    /\ outcome = [u \in Urls |-> "pending"]
    /\ result = [u \in Urls |-> None]
    /\ started = [u \in Urls |-> 0]
    /\ calls = [u \in Urls |-> NoCalls]
    /\ heard = [u \in Urls |-> NothingHeard]
    /\ last_response \in {None, OldArtifact}
    /\ last_writer = None
    /\ now = 0

\* ------------------------------------------------------------------------
\* scrape() ends with `return value`.
ScrapeReturns(u, value) ==
    /\ pc' = [pc EXCEPT ![u] = "done"]
    /\ outcome' = [outcome EXCEPT ![u] = "returned"]
    /\ result' = [result EXCEPT ![u] = value]

\* scrape() ends with an exception that reaches its caller.
ScrapeRaises(u) ==
    /\ pc' = [pc EXCEPT ![u] = "done"]
    /\ outcome' = [outcome EXCEPT ![u] = "raised"]
    /\ result' = result

\* scrape() from the return of _check_for_blocking (is_blocked, decided by
\* stage `how`) to its next suspension point: the return on a block, else
\* the write of last_response.html (outside any try) and
\* _extract_data_with_llm up to its service call: the HTML is reduced with
\* BeautifulSoup inside the try, then the call is issued.  c and h are the
\* scraper's calls and heard as the step has updated them so far.
AfterCheck(u, body, is_blocked, how, c, h) ==
    /\ verdict' = [verdict EXCEPT ![u] = IF is_blocked THEN how ELSE "clear"]
    /\ IF ~passes_block_check(is_blocked)
       THEN /\ ScrapeReturns(u, None)
            /\ calls' = [calls EXCEPT ![u] = c]
            /\ heard' = [heard EXCEPT ![u] = h]
            /\ UNCHANGED <<last_response, last_writer>>
       ELSE \E w \in WriteOutcomes :
            /\ last_response' = file_write(last_response, body, w)
            /\ last_writer' = IF w = "open_fails" THEN last_writer ELSE Some(u)
            /\ IF w # "ok"
               THEN /\ ScrapeRaises(u)
                    /\ calls' = [calls EXCEPT ![u] = c]
                    /\ heard' = [heard EXCEPT ![u] = [h EXCEPT !.write = w]]
               ELSE \E r \in {"ok", "raises"} :
                    /\ heard' = [heard EXCEPT ![u] = [h EXCEPT !.write = w, !.reducer = r]]
                    /\ IF r = "raises"
                       THEN /\ ScrapeReturns(u, None)
                            /\ calls' = [calls EXCEPT ![u] =
                                   [c EXCEPT !.reducer = @ + 1]]
                       ELSE /\ pc' = [pc EXCEPT ![u] = "extracting"]
                            /\ calls' = [calls EXCEPT ![u] =
                                   [c EXCEPT !.reducer = @ + 1, !.extractor = @ + 1]]
                            /\ UNCHANGED <<outcome, result>>

\* scraper.scrape() is called: the task runs into _safe_request and is
\* suspended in session.get.
Scrape(u) ==
    /\ pc[u] = "idle"
    /\ pc' = [pc EXCEPT ![u] = "fetching"]
    /\ started' = [started EXCEPT ![u] = now]
    /\ calls' = [calls EXCEPT ![u] = [@ EXCEPT !.request = @ + 1]]
    /\ UNCHANGED <<html_content, status_code, verdict, outcome, result, heard,
                   last_response, last_writer, now>>

\* The GET completes or fails.  _safe_request returns; scrape() returns None
\* on an absent body, else enters _check_for_blocking, which either decides
\* by its indicators or issues the classifier call and is suspended.
FetchReturns(u) ==
    /\ pc[u] = "fetching"
    /\ \E http \in HttpOutcomes :
       LET r == safe_request(http)
           h == [heard[u] EXCEPT !.http = Some(http)]
       IN /\ html_content' = [html_content EXCEPT ![u] = r[1]]
          /\ status_code' = [status_code EXCEPT ![u] = r[2]]
          /\ IF r[1] = None
             THEN /\ ScrapeReturns(u, None)
                  /\ heard' = [heard EXCEPT ![u] = h]
                  /\ UNCHANGED <<verdict, calls, last_response, last_writer>>
             ELSE LET c == [calls[u] EXCEPT !.detector = @ + 1]
                  IN IF any_blocking_indicator(r[1][1], r[2])
                     THEN AfterCheck(u, r[1][1], TRUE, "heuristic", c, h)
                     ELSE /\ pc' = [pc EXCEPT ![u] = "classifying"]
                          /\ calls' = [calls EXCEPT ![u] =
                                 [c EXCEPT !.classifier = @ + 1]]
                          /\ heard' = [heard EXCEPT ![u] = h]
                          /\ UNCHANGED <<verdict, outcome, result, last_response,
                                         last_writer>>
    /\ UNCHANGED <<started, now>>

\* The classifier call completes or raises.  _check_for_blocking returns and
\* scrape() goes on as AfterCheck says.
ClassifierReturns(u) ==
    /\ pc[u] = "classifying"
    /\ \E reply \in ClassifierReplies :
          AfterCheck(u, html_content[u][1], llm_detects_blocking(reply), "semantic",
                     calls[u], [heard[u] EXCEPT !.classifier = Some(reply)])
    /\ UNCHANGED <<html_content, status_code, started, now>>

\* The extraction call completes or raises.  _extract_data_with_llm returns
\* and scrape() returns its value.
ExtractorReturns(u) ==
    /\ pc[u] = "extracting"
    /\ \E reply \in ExtractorReplies :
       /\ heard' = [heard EXCEPT ![u] = [@ EXCEPT !.extractor = Some(reply)]]
       /\ ScrapeReturns(u, extract_data(reply, now, u))
    /\ UNCHANGED <<html_content, status_code, verdict, started, calls,
                   last_response, last_writer, now>>

\* Time passes.
Tick ==
    /\ now < MaxClock
    /\ now' = now + 1
    /\ UNCHANGED <<pc, html_content, status_code, verdict, outcome, result,
                   started, calls, heard, last_response, last_writer>>

Next ==
    \/ \E u \in Urls : Scrape(u)
    \/ \E u \in Urls : FetchReturns(u)
    \/ \E u \in Urls : ClassifierReturns(u)
    \/ \E u \in Urls : ExtractorReturns(u)
    \/ Tick

Spec == Init /\ [][Next]_vars

\* ------------------------------------------------------------------------
\* Properties.

Blocked(u) == verdict[u] \in {"heuristic", "semantic"}

\* c is the lower-case letter l or its capital.
SameLetter(c, l) == c = l \/ \E k \in 1..26 : LOWER[k] = l /\ UPPER[k] = c

\* body contains phrase, each letter in either case.
ContainsAnyCase(phrase, body) ==
    \E k \in 0..(Len(body) - Len(phrase)) :
        \A j \in 1..Len(phrase) : SameLetter(body[k + j], phrase[j])

\* The detector was given input on which a heuristic matches.
HeuristicCase(u) ==
    /\ calls[u].detector > 0
    /\ \/ status_code[u] \in {403, 429, 503}
       \/ \E phrase \in {CAPTCHA, ACCESS_DENIED, RATE_LIMIT} :
             ContainsAnyCase(phrase, html_content[u][1])

\* The detector was given input on which no heuristic matches, and the
\* classifier has answered.
SemanticCase(u) ==
    /\ calls[u].detector > 0
    /\ ~HeuristicCase(u)
    /\ heard[u].classifier # None

\* C1: whenever the detector is given status 403, 429 or 503, or a body
\* that contains "captcha", "access denied" or "rate limit" in any letter
\* case, its verdict is blocked, decided by the heuristic stage, and the
\* classifier was not called.
C1_HeuristicDecides ==
    \A u \in Urls :
        HeuristicCase(u) => verdict[u] = "heuristic" /\ calls[u].classifier = 0

\* A page with status 200 whose body holds the phrase in capitals was
\* judged blocked by the heuristics.
C1_Witness ==
    \E u \in Urls :
        /\ html_content[u] = Some(PAGE_CAPTCHA)
        /\ status_code[u] = 200
        /\ verdict[u] = "heuristic"
        /\ calls[u].classifier = 0

\* C2: when no heuristic matches, the classifier is called exactly once; if
\* the call raises or its reply is no JSON the verdict is not-blocked; and
\* the verdict is blocked only if the parsed reply's is_blocked is true.
C2_SemanticStage ==
    \A u \in Urls :
        SemanticCase(u) =>
            LET reply == heard[u].classifier[1] IN
            /\ calls[u].classifier = 1
            /\ reply \in {ServiceError, NotJson} => verdict[u] = "clear"
            /\ verdict[u] = "semantic" =>
                  /\ reply.kind = "json"
                  /\ reply.value.t = "dict"
                  /\ dict_get(reply.value.f, "is_blocked") = JBool(TRUE)

\* C3: whenever the verdict is blocked, scrape() has returned None and
\* neither the reducer nor the extractor call was invoked; the extraction
\* stage is entered only after a not-blocked verdict.
C3_BlockedNeverExtracts ==
    \A u \in Urls :
        /\ Blocked(u) =>
              /\ pc[u] = "done" /\ outcome[u] = "returned" /\ result[u] = None
              /\ calls[u].reducer = 0 /\ calls[u].extractor = 0
        /\ (calls[u].reducer > 0 \/ calls[u].extractor > 0) => verdict[u] = "clear"

\* A 403 page ended scrape() with None, nothing extracted.
C3_Witness ==
    \E u \in Urls :
        /\ status_code[u] = 403 /\ Blocked(u)
        /\ pc[u] = "done" /\ result[u] = None /\ calls[u].extractor = 0

\* C4: on a transport failure the fetch makes one attempt and returns
\* (None, 500); scrape() then returns None without calling the detector,
\* the classifier, the reducer or the extractor; the detector never gets an
\* absent body.
C4_TransportFailure ==
    \A u \in Urls :
        /\ heard[u].http = Some(TransportError) =>
              /\ calls[u].request = 1
              /\ html_content[u] = None /\ status_code[u] = 500
              /\ pc[u] = "done" /\ outcome[u] = "returned" /\ result[u] = None
              /\ calls[u].detector = 0 /\ calls[u].classifier = 0
              /\ calls[u].reducer = 0 /\ calls[u].extractor = 0
        /\ calls[u].detector > 0 => html_content[u] # None

\* A request failed and scrape() returned None.
C4_Witness ==
    \E u \in Urls :
        /\ heard[u].http = Some(TransportError)
        /\ pc[u] = "done" /\ result[u] = None /\ status_code[u] = 500

\* C5: when the fetch succeeded and the verdict is not-blocked but the
\* extractor's service call raises or its reply is no JSON, scrape()
\* returns None and no exception reaches its caller.
C5_ExtractorFailureIsSoft ==
    \A u \in Urls :
        heard[u].extractor \in {Some(ServiceError), Some(NotJson)} =>
            /\ html_content[u] # None /\ verdict[u] = "clear"
            /\ pc[u] = "done" /\ outcome[u] = "returned" /\ result[u] = None

\* The extraction call raised after a clean page and scrape() returned None.
C5_Witness ==
    \E u \in Urls :
        /\ heard[u].extractor = Some(ServiceError)
        /\ status_code[u] = 200 /\ verdict[u] = "clear"
        /\ outcome[u] = "returned" /\ result[u] = None

\* The extractor's reply parsed to a JSON object.
ObjectReply(u) ==
    /\ heard[u].extractor # None
    /\ heard[u].extractor[1].kind = "json"
    /\ heard[u].extractor[1].value.t = "dict"

\* C6: when the fetch returned a body, no block was detected and the
\* extractor's reply is a JSON object, scrape() returns a record with the
\* reply's fields, a timestamp taken during the call and the URL given at
\* construction, also when the reply itself has such fields.
C6_RecordStamped ==
    \A u \in Urls :
        ObjectReply(u) =>
            /\ outcome[u] = "returned" /\ result[u] # None
            /\ LET rec == result[u][1]
                   f == heard[u].extractor[1].value.f
               IN /\ DOMAIN rec = (DOMAIN f) \cup {"timestamp", "url"}
                  /\ rec["url"] = JStr(u)
                  /\ \E n \in started[u]..now : rec["timestamp"] = JStr(IsoFormat(n))
                  /\ \A k \in (DOMAIN f) \ {"timestamp", "url"} : rec[k] = f[k]

\* A reply that names a URL and a timestamp of its own was returned
\* as a record.
C6_Witness ==
    \E u \in Urls :
        /\ ObjectReply(u)
        /\ "url" \in DOMAIN heard[u].extractor[1].value.f
        /\ pc[u] = "done" /\ result[u] # None

\* C7: in every record scrape() returns, price is absent or a non-negative
\* number.
C7_PriceNumericOrAbsent ==
    \A u \in Urls :
        result[u] # None =>
            LET price == dict_get(result[u][1], "price")
            IN price = JNull \/ (price.t = "num" /\ price.n >= 0)

\* C8: a failed write of the debug artifact does not make scrape() raise
\* and does not stop it: the extraction stage still runs.
C8_WriteIsBestEffort ==
    \A u \in Urls :
        heard[u].write \in {"open_fails", "write_fails"} =>
            outcome[u] # "raised" /\ calls[u].reducer = 1

\* C9: for concurrent scrape() invocations on distinct URLs, every side
\* effect an invocation leaves behind is as if it had run alone: the debug
\* artifact an invocation wrote holds the body that invocation fetched.
C9_ArtifactAsIfAlone ==
    \A u \in Urls :
        heard[u].write = "ok" => last_response = html_content[u]

\* What a scraper holds and returns comes from its own fetch and its own
\* service replies.
OwnRun(u) ==
    /\ heard[u].http # None =>
          <<html_content[u], status_code[u]>> = safe_request(heard[u].http[1])
    /\ verdict[u] = "heuristic" =>
          any_blocking_indicator(heard[u].http[1].body, heard[u].http[1].status)
    /\ verdict[u] = "semantic" => llm_detects_blocking(heard[u].classifier[1])
    /\ result[u] # None =>
          /\ ObjectReply(u)
          /\ result[u][1]["url"] = JStr(u)
          /\ \A k \in (DOMAIN heard[u].extractor[1].value.f) \ {"timestamp", "url"} :
                result[u][1][k] = heard[u].extractor[1].value.f[k]

\* C9, amended: concurrent invocations share no task-local state (each
\* one's body, status, verdict and result come from its own fetch and
\* replies), but they share the debug artifact: it holds the body of the
\* invocation whose write came last, and is as it was before while no
\* invocation has opened it.
C9_SharedArtifactOnly ==
    /\ \A u \in Urls : OwnRun(u)
    /\ last_writer = None => last_response \in {None, OldArtifact}
    /\ \A w \in Urls :
          (last_writer = Some(w) /\ heard[w].write = "ok") =>
              last_response = html_content[w]

\* Two invocations fetched different bodies and both wrote the artifact;
\* it holds the body of the second writer only.
C9_Witness ==
    \E u, w \in Urls :
        /\ u # w
        /\ heard[u].write = "ok" /\ heard[w].write = "ok"
        /\ html_content[u] # html_content[w]
        /\ last_writer = Some(w)
        /\ last_response = html_content[w]

WriteOnlyWhenClear ==
    \A u \in Urls :
        heard[u].write # "none" <=> (html_content[u] # None /\ verdict[u] = "clear")

\* A step in which an invocation's write succeeds leaves the artifact equal
\* to that invocation's body; a step in which no invocation writes leaves
\* the artifact as it was.
ArtifactStep ==
    /\ \A u \in Urls :
          (heard[u].write = "none" /\ heard'[u].write = "ok") =>
              last_response' = html_content'[u]
    /\ (\A u \in Urls : heard'[u].write = heard[u].write) =>
          last_response' = last_response

====
